---- MODULE Spec2Model ----
(***************************************************************************)
(* Model of python_pii_service/main.py: the engine registry filled by      *)
(* lifespan, the three single-engine handlers, the hybrid handler, the     *)
(* overlap consolidation, the splice anonymizer and the benchmark handler. *)
(*                                                                         *)
(* Strings are sequences of one-character strings, so that slicing and     *)
(* concatenation are computed and not assumed.  Scores are tenths          *)
(* (0.5 is 5, 0.8 is 8).                                                    *)
(***************************************************************************)
EXTENDS Integers, Sequences, FiniteSets

VARIABLES nlp_models, pc, request, response, invoked, findings, consolidated, previous, text,
          anonymized

vars == <<nlp_models, pc, request, response, invoked, findings, consolidated, previous, text,
          anonymized>>

(***************************************************************************)
(* Bounds of the explored inputs.                                          *)
(***************************************************************************)
MaxPos == 3
MaxLen == 3
AnonMaxLen == 3
SvcMaxPos == 3
SvcMaxFindings == 2

(***************************************************************************)
(* Program constants.                                                      *)
(***************************************************************************)
DefaultThreshold == 5
SpacyHighConfidence == 8
SpacyLowConfidence == 7
FailedTime == -1

PERSON == <<"P", "E", "R", "S", "O", "N">>
ORG == <<"O", "R", "G">>
GPE == <<"G", "P", "E">>
PER == <<"P", "E", "R">>

Min(a, b) == IF a < b THEN a ELSE b

(***************************************************************************)
(* Python slices text[:n] and text[n:] for n >= 0 (out-of-range indices    *)
(* are clamped, as Python does).                                           *)
(***************************************************************************)
SliceTo(s, n) == SubSeq(s, 1, Min(n, Len(s)))

SliceFrom(s, n) == SubSeq(s, n + 1, Len(s))

(***************************************************************************)
(* sorted(findings, key=lambda x: x.start): stable, ascending.             *)
(***************************************************************************)
RECURSIVE InsertAscending(_, _)
InsertAscending(s, x) ==
    IF s = <<>> THEN <<x>>
    ELSE IF s[Len(s)].start <= x.start THEN Append(s, x)
    ELSE Append(InsertAscending(SubSeq(s, 1, Len(s) - 1), x), s[Len(s)])

RECURSIVE SortedByStart(_)
SortedByStart(s) ==
    IF s = <<>> THEN <<>>
    ELSE InsertAscending(SortedByStart(SubSeq(s, 1, Len(s) - 1)), s[Len(s)])

(***************************************************************************)
(* sorted(findings, key=lambda x: x.start, reverse=True): descending,      *)
(* equal keys keep their original relative order.                          *)
(***************************************************************************)
RECURSIVE InsertDescending(_, _)
InsertDescending(s, x) ==
    IF s = <<>> THEN <<x>>
    ELSE IF s[Len(s)].start >= x.start THEN Append(s, x)
    ELSE Append(InsertDescending(SubSeq(s, 1, Len(s) - 1), x), s[Len(s)])

RECURSIVE SortedByStartReverse(_)
SortedByStartReverse(s) ==
    IF s = <<>> THEN <<>>
    ELSE InsertDescending(SortedByStartReverse(SubSeq(s, 1, Len(s) - 1)), s[Len(s)])

(***************************************************************************)
(* The overlap test of consolidate_findings (closed intervals).            *)
(***************************************************************************)
OverlapsHalfOpen(finding, existing) ==
    finding.start < existing.end /\ finding.end > existing.start

Overlaps(finding, existing) ==
    finding.start <= existing.end /\ finding.end >= existing.start

(* Index of the first accepted entry overlapping the candidate, 0 if none *)
FirstOverlapping(finding, acc) ==
    IF \E i \in 1..Len(acc) : Overlaps(finding, acc[i])
    THEN CHOOSE i \in 1..Len(acc) :
            /\ Overlaps(finding, acc[i])
            /\ \A j \in 1..(i - 1) : ~Overlaps(finding, acc[j])
    ELSE 0

(* list.remove(x): drops the first element equal to x *)
ListRemove(s, x) ==
    LET i == CHOOSE k \in 1..Len(s) : s[k] = x /\ \A j \in 1..(k - 1) : s[j] # x
    IN  SubSeq(s, 1, i - 1) \o SubSeq(s, i + 1, Len(s))

ConsolidateStepKeepLater(acc, finding) ==
    LET i == FirstOverlapping(finding, acc)
    IN  IF i # 0
        THEN IF finding.score >= acc[i].score
             THEN Append(ListRemove(acc, acc[i]), finding)
             ELSE acc
        ELSE Append(acc, finding)

(* One iteration of the for loop over sorted_findings *)
ConsolidateStep(acc, finding) ==
    LET i == FirstOverlapping(finding, acc)
    IN  IF i # 0
        THEN IF finding.score > acc[i].score
             THEN Append(ListRemove(acc, acc[i]), finding)
             ELSE acc
        ELSE Append(acc, finding)

RECURSIVE ConsolidateLoop(_, _)
ConsolidateLoop(sorted_findings, acc) ==
    IF sorted_findings = <<>> THEN acc
    ELSE ConsolidateLoop(Tail(sorted_findings), ConsolidateStep(acc, Head(sorted_findings)))

consolidate_findings_descending(fs) ==
    IF fs = <<>> THEN <<>>
    ELSE ConsolidateLoop(SortedByStartReverse(fs), <<>>)

consolidate_findings_unsorted(fs) ==
    IF fs = <<>> THEN <<>>
    ELSE ConsolidateLoop(fs, <<>>)

consolidate_findings(fs) ==
    IF fs = <<>> THEN <<>>
    ELSE ConsolidateLoop(SortedByStart(fs), <<>>)

(***************************************************************************)
(* The splice loop shared by the spaCy, Transformers and hybrid paths.     *)
(***************************************************************************)
Replacement(finding) == <<"[">> \o finding.entity_type \o <<"]">>

SpliceInclusiveEnd(t, finding) ==
    SliceTo(t, finding.start) \o Replacement(finding) \o SliceFrom(t, finding.end + 1)

Splice(t, finding) ==
    SliceTo(t, finding.start) \o Replacement(finding) \o SliceFrom(t, finding.end)

RECURSIVE SpliceLoop(_, _)
SpliceLoop(t, ordered) ==
    IF ordered = <<>> THEN t
    ELSE SpliceLoop(Splice(t, Head(ordered)), Tail(ordered))

AnonymizeAscending(t, fs) == SpliceLoop(t, SortedByStart(fs))

Anonymize(t, fs) == SpliceLoop(t, SortedByStartReverse(fs))

(***************************************************************************)
(* Input universes.                                                        *)
(***************************************************************************)
(* the two confidence values the service assigns itself (0.7 and 0.8) *)
Scores == {SpacyLowConfidence, SpacyHighConfidence}

(* spans with 0 <= start < end <= n *)
Spans(n) == {sp \in (0..n) \X (0..n) : sp[1] < sp[2]}

WellFormed(types, n, scores) ==
    {[entity_type |-> ty, start |-> sp[1], end |-> sp[2], score |-> sc] :
        ty \in types, sp \in Spans(n), sc \in scores}

RECURSIVE ListsUpTo(_, _)
ListsUpTo(S, n) ==
    IF n = 0 THEN {<<>>}
    ELSE LET shorter == ListsUpTo(S, n - 1)
         IN  shorter \cup {Append(l, x) : l \in {m \in shorter : Len(m) = n - 1}, x \in S}

Letters == <<"a", "b", "c", "d", "e", "f", "g", "h">>

SampleText(n) == [i \in 1..n |-> Letters[((i - 1) % Len(Letters)) + 1]]

(***************************************************************************)
(* A request is the body received (text, config) together with what each   *)
(* engine does on it: raise (ok = FALSE) or report results.                *)
(***************************************************************************)
DefaultConfig == [confidence_threshold |-> DefaultThreshold, entities |-> {}]

EngineError == [ok |-> FALSE, results |-> <<>>, anon |-> <<>>]

NotRun == [presidio |-> EngineError, spacy |-> EngineError, transformers |-> EngineError]

NoRequest == [handler |-> "", text |-> <<>>, config |-> DefaultConfig, engines |-> NotRun]

NoResponse == [status |-> 0]

(***************************************************************************)
(* Consolidation on its own: the input list is drawn in Init, Consolidate  *)
(* applies consolidate_findings, Reconsolidate applies it to its own       *)
(* output, Rearrange applies it to the input with two entries exchanged    *)
(* (every arrival order of a list is reached by such exchanges, and every  *)
(* list is an initial state).                                              *)
(***************************************************************************)
Exchanged(s, i, j) == [s EXCEPT ![i] = s[j], ![j] = s[i]]

InitCons ==
    /\ findings \in ListsUpTo(WellFormed({PERSON}, MaxPos, Scores), MaxLen)
    /\ consolidated = <<>>
    /\ previous = <<>>
    /\ pc = "input"
    /\ nlp_models = {}
    /\ request = NoRequest
    /\ response = NoResponse
    /\ invoked = <<>>
    /\ text = <<>>
    /\ anonymized = <<>>

Consolidate ==
    /\ pc = "input"
    /\ consolidated' = consolidate_findings(findings)
    /\ pc' = "consolidated"
    /\ UNCHANGED <<findings, previous, nlp_models, request, response, invoked, text, anonymized>>

Reconsolidate ==
    /\ pc = "consolidated"
    /\ previous' = consolidated
    /\ findings' = consolidated
    /\ consolidated' = consolidate_findings(consolidated)
    /\ pc' = "reconsolidated"
    /\ UNCHANGED <<nlp_models, request, response, invoked, text, anonymized>>

Rearrange ==
    /\ pc = "consolidated"
    /\ \E i, j \in 1..Len(findings) :
          /\ i < j
          /\ findings' = Exchanged(findings, i, j)
          /\ consolidated' = consolidate_findings(Exchanged(findings, i, j))
    /\ previous' = consolidated
    /\ pc' = "rearranged"
    /\ UNCHANGED <<nlp_models, request, response, invoked, text, anonymized>>

NextCons == Consolidate \/ Reconsolidate \/ Rearrange

SpecCons == InitCons /\ [][NextCons]_vars

Applied == pc \in {"consolidated", "reconsolidated", "rearranged"}

AscendingByStart(s) == \A i \in 1..(Len(s) - 1) : s[i].start <= s[i + 1].start

ConsecutiveDisjoint(s) == \A i \in 1..(Len(s) - 1) : s[i].end < s[i + 1].start

PairwiseNonOverlapping(s) ==
    \A i, j \in 1..Len(s) :
        i # j => ~(s[i].start <= s[j].end /\ s[j].start <= s[i].end)

Elements(s) == {s[i] : i \in 1..Len(s)}

(* C3: for every list of well-formed findings, in any arrival order, the   *)
(* list returned by consolidate_findings is ascending by start, each entry *)
(* ends before the next one starts, and every entry is an input finding.   *)
C3_OutputSortedDisjoint ==
    Applied =>
        /\ AscendingByStart(consolidated)
        /\ ConsecutiveDisjoint(consolidated)
        /\ PairwiseNonOverlapping(consolidated)
        /\ Elements(consolidated) \subseteq Elements(findings)

C3_Witness ==
    /\ pc = "consolidated"
    /\ Len(findings) = 3
    /\ ~AscendingByStart(findings)
    /\ \E i, j, k \in 1..3 :
          /\ Overlaps(findings[i], findings[j])
          /\ Overlaps(findings[j], findings[k])
          /\ ~Overlaps(findings[i], findings[k])
    /\ Len(consolidated) = 2

TwoOverlapping ==
    /\ Len(findings) = 2
    /\ findings[1].start <= findings[2].end
    /\ findings[2].start <= findings[1].end

ExpectedWinner(a, b) ==
    IF a.score > b.score THEN a
    ELSE IF b.score > a.score THEN b
    ELSE IF a.start <= b.start THEN a ELSE b

(* C4: two findings that overlap under the closed-interval test (touching  *)
(* spans included) consolidate to exactly one finding, the one with the    *)
(* strictly higher score, or on equal scores the first one of the stable   *)
(* start-order sort.                                                       *)
C4_TwoOverlappingKeepHigher ==
    (pc = "consolidated" /\ TwoOverlapping) =>
        consolidated = <<ExpectedWinner(findings[1], findings[2])>>

C4_Witness ==
    /\ pc = "consolidated"
    /\ TwoOverlapping
    /\ findings[1].end = findings[2].start
    /\ findings[2].score > findings[1].score
    /\ consolidated = <<findings[2]>>

(* C5: a start-sorted, pairwise non-overlapping list is returned unchanged *)
(* and consolidating the output of a consolidation returns that output.    *)
C5_Idempotent ==
    /\ (Applied /\ AscendingByStart(findings) /\ PairwiseNonOverlapping(findings))
          => consolidated = findings
    /\ pc = "reconsolidated" => (consolidated = previous /\ findings = previous)

C5_Witness ==
    /\ pc = "reconsolidated"
    /\ Len(previous) = 2
    /\ consolidated = previous

DistinctStarts(s) ==
    \A i, j \in 1..Len(s) : (s[i].start = s[j].start) => (s[i] = s[j])

JohnDoeText ==
    <<"J", "o", "h", "n", " ", "D", "o", "e", " ", "i", "s", " ", "h", "e", "r", "e">>

ScenarioPerson == [entity_type |-> PERSON, start |-> 0, end |-> 4, score |-> 9]

ScenarioOrg == [entity_type |-> ORG, start |-> 2, end |-> 6, score |-> 6]

AnonTexts == {SampleText(n) : n \in 0..MaxPos} \cup {JohnDoeText}

FindingsFor(t) ==
    IF t = JohnDoeText THEN {ScenarioPerson, ScenarioOrg}
    ELSE WellFormed({PERSON, ORG}, Len(t), {SpacyHighConfidence})

InitAnon ==
    /\ text \in AnonTexts
    /\ findings \in ListsUpTo(FindingsFor(text), AnonMaxLen)
    /\ consolidated = <<>>
    /\ previous = <<>>
    /\ anonymized = <<>>
    /\ pc = "input"
    /\ nlp_models = {}
    /\ request = NoRequest
    /\ response = NoResponse
    /\ invoked = <<>>

AnonymizeFindings ==
    /\ pc = "input"
    /\ anonymized' = Anonymize(text, findings)
    /\ previous' = findings
    /\ pc' = "anonymized"
    /\ UNCHANGED <<text, findings, consolidated, nlp_models, request, response, invoked>>

ConsolidateAndAnonymize ==
    /\ pc = "input"
    /\ consolidated' = consolidate_findings(findings)
    /\ anonymized' = Anonymize(text, consolidate_findings(findings))
    /\ previous' = consolidate_findings(findings)
    /\ pc' = "hybrid_anonymized"
    /\ UNCHANGED <<text, findings, nlp_models, request, response, invoked>>

NextAnon == AnonymizeFindings \/ ConsolidateAndAnonymize

SpecAnon == InitAnon /\ [][NextAnon]_vars

Spliced == pc \in {"anonymized", "hybrid_anonymized"}

(* the spans [start, end) are pairwise disjoint and lie within the text *)
DisjointWithin(fs, t) ==
    /\ \A i \in 1..Len(fs) : 0 <= fs[i].start /\ fs[i].start < fs[i].end /\ fs[i].end <= Len(t)
    /\ \A i, j \in 1..Len(fs) :
          i # j => (fs[i].end <= fs[j].start \/ fs[j].end <= fs[i].start)

(* The text read left to right from offset i: a span is replaced by its    *)
(* placeholder, any other character is copied.                             *)
RECURSIVE Redacted(_, _, _)
Redacted(t, fs, i) ==
    IF \E k \in 1..Len(fs) : fs[k].start = i
    THEN LET k == CHOOSE k \in 1..Len(fs) : fs[k].start = i
         IN  <<"[">> \o fs[k].entity_type \o <<"]">> \o Redacted(t, fs, fs[k].end)
    ELSE IF i >= Len(t) THEN <<>>
    ELSE <<t[i + 1]>> \o Redacted(t, fs, i + 1)

RECURSIVE SpanTotal(_)
SpanTotal(fs) ==
    IF fs = <<>> THEN 0 ELSE (Head(fs).end - Head(fs).start) + SpanTotal(Tail(fs))

RECURSIVE PlaceholderTotal(_)
PlaceholderTotal(fs) ==
    IF fs = <<>> THEN 0 ELSE (Len(Head(fs).entity_type) + 2) + PlaceholderTotal(Tail(fs))

(* C6: for pairwise disjoint findings within the text, the splice loop     *)
(* returns the text with each span [start, end) replaced by                *)
(* "[" + entity_type + "]" and everything else kept in order; the length   *)
(* law holds; an empty finding list returns the text unchanged.            *)
C6_AnonymizeDisjoint ==
    (Spliced /\ DisjointWithin(previous, text)) =>
        /\ anonymized = Redacted(text, previous, 0)
        /\ Len(anonymized) = Len(text) - SpanTotal(previous) + PlaceholderTotal(previous)
        /\ (previous = <<>> => anonymized = text)

C6_Witness ==
    /\ pc = "anonymized"
    /\ Len(text) = 3
    /\ Len(previous) = 3
    /\ DisjointWithin(previous, text)
    /\ previous[1].start < previous[2].start
    /\ previous[3].start < previous[1].start
    /\ previous[1].entity_type # previous[2].entity_type
    /\ Len(anonymized) > Len(text)

Scenario == text = JohnDoeText /\ findings = <<ScenarioPerson, ScenarioOrg>>

(* C7 as stated: the scenario consolidates to the PERSON finding and the   *)
(* anonymized text is "[PERSON] is here".                                  *)
C7_ScenarioAsStated ==
    (pc = "hybrid_anonymized" /\ Scenario) =>
        /\ consolidated = <<ScenarioPerson>>
        /\ anonymized = <<"[">> \o PERSON \o <<"]", " ", "i", "s", " ", "h", "e", "r", "e">>

(* C7 amended: the scenario consolidates to the PERSON finding and the     *)
(* anonymized text is "[PERSON] Doe is here" (only "John", the span 0-4,   *)
(* is replaced).                                                           *)
C7_ScenarioKeepsDoe ==
    (pc = "hybrid_anonymized" /\ Scenario) =>
        /\ consolidated = <<ScenarioPerson>>
        /\ anonymized = <<"[">> \o PERSON \o
              <<"]", " ", "D", "o", "e", " ", "i", "s", " ", "h", "e", "r", "e">>

C7_Witness ==
    /\ pc = "hybrid_anonymized"
    /\ Scenario
    /\ Len(consolidated) = 1
    /\ Len(anonymized) = 20

(***************************************************************************)
(* The service: lifespan fills nlp_models once, then each request is       *)
(* handled by one handler.  What an engine does on a request (raise, or    *)
(* report a list of results) is the environment's choice and is recorded   *)
(* in request.engines.                                                     *)
(***************************************************************************)
DATE == <<"D", "A", "T", "E">>
TIME == <<"T", "I", "M", "E">>
MONEY == <<"M", "O", "N", "E", "Y">>
CARDINAL == <<"C", "A", "R", "D", "I", "N", "A", "L">>

SpacyDefaultEntities == {PERSON, ORG, GPE, DATE, TIME, MONEY, CARDINAL}

Configs == {DefaultConfig, [confidence_threshold |-> DefaultThreshold + 1, entities |-> {PERSON}]}

EngineNames == <<"presidio", "spacy", "transformers">>

(* the try blocks of lifespan: a block that raises keeps the keys it had   *)
(* already stored                                                          *)
SpacyLoads == {{}, {"spacy"}}

PresidioLoads == {{}, {"presidio_analyzer"}, {"presidio_analyzer", "presidio_anonymizer"}}

TransformersLoads ==
    {{}, {"transformers_tokenizer"}, {"transformers_tokenizer", "transformers_model"},
     {"transformers_tokenizer", "transformers_model", "transformers_pipeline"}}

(* the key each handler and each hybrid/benchmark branch tests *)
RegistryKey(engine) ==
    CASE engine = "presidio" -> "presidio_analyzer"
      [] engine = "spacy" -> "spacy"
      [] engine = "transformers" -> "transformers_pipeline"

Http(code, message) ==
    [status |-> code, findings |-> <<>>, anonymized_text |-> <<>>, processing_engine |-> "",
     detail |-> message]


PIIAnalysisResult(fs, anonymized_text, engine) ==
    [status |-> 200, findings |-> fs, anonymized_text |-> anonymized_text,
     processing_engine |-> engine, detail |-> ""]

PIIFinding(entity_type, start, end, score) ==
    [entity_type |-> entity_type, start |-> start, end |-> end, score |-> score]

RECURSIVE SelectSeq2(_, _)
SelectSeq2(s, keep) ==
    IF s = <<>> THEN <<>>
    ELSE IF Head(s) \in keep THEN <<Head(s)>> \o SelectSeq2(Tail(s), keep)
    ELSE SelectSeq2(Tail(s), keep)

(* analyze_with_presidio: the analyzer's results are converted one to one; *)
(* the anonymized text is what AnonymizerEngine returned                   *)
analyze_with_presidio(models, req, outcome) ==
    IF "presidio_analyzer" \notin models THEN Http(503, "Presidio not available")
    ELSE IF "presidio_anonymizer" \notin models \/ ~outcome.ok
    THEN Http(500, "Presidio analysis failed")
    ELSE PIIAnalysisResult(
            [i \in 1..Len(outcome.results) |->
                PIIFinding(outcome.results[i].entity_type, outcome.results[i].start,
                           outcome.results[i].end, outcome.results[i].score)],
            outcome.anon, "presidio")

SpacyConfidence(label) ==
    IF label \in {PERSON, ORG} THEN SpacyHighConfidence ELSE SpacyLowConfidence

SpacyKept(req, ents) ==
    {ent \in {ents[i] : i \in 1..Len(ents)} :
        /\ ent.label_ \in (IF req.config.entities # {} THEN req.config.entities
                           ELSE SpacyDefaultEntities)
        /\ SpacyConfidence(ent.label_) >= req.config.confidence_threshold}

analyze_with_spacy(models, req, outcome) ==
    IF "spacy" \notin models THEN Http(503, "spaCy not available")
    ELSE IF ~outcome.ok THEN Http(500, "spaCy analysis failed")
    ELSE LET kept == SelectSeq2(outcome.results, SpacyKept(req, outcome.results))
             fs == [i \in 1..Len(kept) |->
                       PIIFinding(kept[i].label_, kept[i].start_char, kept[i].end_char,
                                  SpacyConfidence(kept[i].label_))]
         IN  PIIAnalysisResult(fs, Anonymize(req.text, fs), "spacy")

TransformersKept(req, results) ==
    {r \in {results[i] : i \in 1..Len(results)} : r.score >= req.config.confidence_threshold}

analyze_with_transformers(models, req, outcome) ==
    IF "transformers_pipeline" \notin models THEN Http(503, "Transformers not available")
    ELSE IF ~outcome.ok THEN Http(500, "Transformers analysis failed")
    ELSE LET kept == SelectSeq2(outcome.results, TransformersKept(req, outcome.results))
             fs == [i \in 1..Len(kept) |->
                       PIIFinding(kept[i].entity_group, kept[i].start, kept[i].end,
                                  kept[i].score)]
         IN  PIIAnalysisResult(fs, Anonymize(req.text, fs), "transformers")

AnalyzeWith(engine, models, req) ==
    CASE engine = "presidio" -> analyze_with_presidio(models, req, req.engines.presidio)
      [] engine = "spacy" -> analyze_with_spacy(models, req, req.engines.spacy)
      [] engine = "transformers" ->
            analyze_with_transformers(models, req, req.engines.transformers)

(* one "if key in nlp_models: try ... except" block of analyze_hybrid:     *)
(* the call is made when the key is present; its findings are added when   *)
(* it returns, and nothing is added when it raises                         *)
HybridBlock(st, engine, models, req) ==
    IF RegistryKey(engine) \in models
    THEN LET result == AnalyzeWith(engine, models, req)
         IN  [all_findings |-> IF result.status = 200
                               THEN st.all_findings \o result.findings
                               ELSE st.all_findings,
              engines_used |-> IF result.status = 200
                               THEN Append(st.engines_used, engine)
                               ELSE st.engines_used,
              called |-> Append(st.called, engine)]
    ELSE st

HybridBlocks(models, req) ==
    HybridBlock(
        HybridBlock(
            HybridBlock([all_findings |-> <<>>, engines_used |-> <<>>, called |-> <<>>],
                        "presidio", models, req),
            "spacy", models, req),
        "transformers", models, req)

analyze_hybrid_no_consolidation(models, req) ==
    LET all_findings == HybridBlocks(models, req).all_findings
    IN  PIIAnalysisResult(all_findings, Anonymize(req.text, all_findings), "hybrid")

analyze_hybrid_abort_on_failure(models, req) ==
    LET st == HybridBlocks(models, req)
        consolidated_findings == consolidate_findings(st.all_findings)
    IN  IF st.engines_used # st.called
        THEN Http(500, "Hybrid analysis failed")
        ELSE PIIAnalysisResult(consolidated_findings,
                               Anonymize(req.text, consolidated_findings), "hybrid")

(* analyze_hybrid: engines_used is filled but never read; nothing in the   *)
(* body raises past the per-engine except blocks, so the outer except      *)
(* (status 500) is never taken                                             *)
analyze_hybrid(models, req) ==
    LET all_findings == HybridBlocks(models, req).all_findings
        consolidated_findings == consolidate_findings(all_findings)
    IN  PIIAnalysisResult(consolidated_findings,
                          Anonymize(req.text, consolidated_findings), "hybrid")

(* the analyze_with_* calls benchmark_engines makes, one per present key *)
BenchmarkCalls(models) == SelectSeq(EngineNames, LAMBDA e : RegistryKey(e) \in models)

BenchmarkRequest(req) == [req EXCEPT !.config = DefaultConfig]

(* results: the entries stored by the try blocks that did not raise *)
BenchmarkResults(models, req) ==
    LET ok == {e \in {"presidio", "spacy", "transformers"} :
                  /\ RegistryKey(e) \in models
                  /\ AnalyzeWith(e, models, BenchmarkRequest(req)).status = 200}
    IN  [e \in ok |-> AnalyzeWith(e, models, BenchmarkRequest(req))]

(* performance["<engine>_time"]: elapsed time, or -1 from the except block *)
BenchmarkTimes(models, req, elapsed) ==
    [e \in {n \in {"presidio", "spacy", "transformers"} : RegistryKey(n) \in models} |->
        IF e \in DOMAIN BenchmarkResults(models, req) THEN elapsed[e] ELSE FailedTime]

(* benchmark_engines.  results.get(name, {}) is the stored PIIAnalysisResult *)
(* when the engine succeeded; that object has no attribute get, so the     *)
(* accuracy comparison raises AttributeError outside any try block.        *)
benchmark_engines(models, req, elapsed) ==
    IF DOMAIN BenchmarkResults(models, req) # {}
    THEN [status |-> 500, raised |-> "AttributeError", results |-> <<>>,
          performance |-> <<>>, accuracy_comparison |-> <<>>]
    ELSE [status |-> 200, raised |-> "", results |-> BenchmarkResults(models, req),
          performance |-> BenchmarkTimes(models, req, elapsed),
          accuracy_comparison |-> [e \in {"presidio", "spacy", "transformers"} |-> 0]]

(***************************************************************************)
(* What the engines may report on a request.                               *)
(***************************************************************************)
PresidioResults(n) ==
    {[entity_type |-> ty, start |-> sp[1], end |-> sp[2], score |-> sc] :
        ty \in {PERSON}, sp \in Spans(n), sc \in {DefaultThreshold + 1}}

SpacyEnts(n) ==
    {[label_ |-> ty, start_char |-> sp[1], end_char |-> sp[2]] :
        ty \in {GPE}, sp \in Spans(n)}

TransformersResults(n) ==
    {[entity_group |-> ty, start |-> sp[1], end |-> sp[2], score |-> sc] :
        ty \in {PER}, sp \in Spans(n), sc \in {DefaultThreshold}}

(* AnonymizerEngine.anonymize is outside this repository: its text is    *)
(* carried through as an opaque value                                      *)
PresidioAnonymized == <<"<", "P", "E", "R", "S", "O", "N", ">">>

Reported(results, anon) == [ok |-> TRUE, results |-> results, anon |-> anon]

(* an engine that is not run on the request has no outcome to choose *)
Runs(engine, models) ==
    CASE engine = "presidio" -> {"presidio_analyzer", "presidio_anonymizer"} \subseteq models
      [] engine = "spacy" -> "spacy" \in models
      [] engine = "transformers" -> "transformers_pipeline" \in models

Outcomes(engine, models, t, n) ==
    IF ~Runs(engine, models) THEN {EngineError}
    ELSE {EngineError} \cup
         CASE engine = "presidio" ->
                {Reported(l, PresidioAnonymized) : l \in ListsUpTo(PresidioResults(Len(t)), n)}
           [] engine = "spacy" ->
                {Reported(l, <<>>) : l \in ListsUpTo(SpacyEnts(Len(t)), n)}
           [] engine = "transformers" ->
                {Reported(l, <<>>) : l \in ListsUpTo(TransformersResults(Len(t)), n)}

ServiceTexts == {SampleText(SvcMaxPos)}

ElapsedSamples == {0, 1}

Init ==
    /\ nlp_models = {}
    /\ pc = "starting"
    /\ request = NoRequest
    /\ response = NoResponse
    /\ invoked = <<>>
    /\ findings = <<>>
    /\ consolidated = <<>>
    /\ previous = <<>>
    /\ text = <<>>
    /\ anonymized = <<>>

Unused == <<findings, consolidated, previous, text, anonymized>>

Lifespan ==
    /\ pc = "starting"
    /\ \E s \in SpacyLoads, p \in PresidioLoads, t \in TransformersLoads :
          nlp_models' = s \cup p \cup t
    /\ pc' = "ready"
    /\ UNCHANGED <<request, response, invoked, Unused>>

AnalyzePresidio ==
    /\ pc = "ready"
    /\ \E t \in ServiceTexts, c \in Configs :
       \E o \in Outcomes("presidio", nlp_models, t, SvcMaxFindings) :
          LET req == [handler |-> "presidio", text |-> t, config |-> c,
                      engines |-> [NotRun EXCEPT !.presidio = o]]
          IN  /\ request' = req
              /\ response' = analyze_with_presidio(nlp_models, req, o)
    /\ invoked' = <<"presidio">>
    /\ pc' = "responded"
    /\ UNCHANGED <<nlp_models, Unused>>

AnalyzeSpacy ==
    /\ pc = "ready"
    /\ \E t \in ServiceTexts, c \in Configs :
       \E o \in Outcomes("spacy", nlp_models, t, SvcMaxFindings) :
          LET req == [handler |-> "spacy", text |-> t, config |-> c,
                      engines |-> [NotRun EXCEPT !.spacy = o]]
          IN  /\ request' = req
              /\ response' = analyze_with_spacy(nlp_models, req, o)
    /\ invoked' = <<"spacy">>
    /\ pc' = "responded"
    /\ UNCHANGED <<nlp_models, Unused>>

AnalyzeTransformers ==
    /\ pc = "ready"
    /\ \E t \in ServiceTexts, c \in Configs :
       \E o \in Outcomes("transformers", nlp_models, t, SvcMaxFindings) :
          LET req == [handler |-> "transformers", text |-> t, config |-> c,
                      engines |-> [NotRun EXCEPT !.transformers = o]]
          IN  /\ request' = req
              /\ response' = analyze_with_transformers(nlp_models, req, o)
    /\ invoked' = <<"transformers">>
    /\ pc' = "responded"
    /\ UNCHANGED <<nlp_models, Unused>>

(* what each engine may do on one request, by the number k of results it  *)
(* may still report                                                        *)
OutcomeTable(engine, models, t, n) == [k \in 0..n |-> Outcomes(engine, models, t, k)]

AnalyzeHybrid ==
    /\ pc = "ready"
    /\ \E t \in ServiceTexts, c \in Configs :
       LET P == OutcomeTable("presidio", nlp_models, t, SvcMaxFindings)
           S == OutcomeTable("spacy", nlp_models, t, SvcMaxFindings)
           T == OutcomeTable("transformers", nlp_models, t, SvcMaxFindings)
       IN  \E p \in P[SvcMaxFindings] :
           \E s \in S[SvcMaxFindings - Len(p.results)] :
           \E tr \in T[SvcMaxFindings - Len(p.results) - Len(s.results)] :
              LET req == [handler |-> "hybrid", text |-> t, config |-> c,
                          engines |-> [presidio |-> p, spacy |-> s, transformers |-> tr]]
              IN  /\ request' = req
                  /\ response' = analyze_hybrid(nlp_models, req)
                  /\ invoked' = HybridBlocks(nlp_models, req).called
    /\ pc' = "responded"
    /\ UNCHANGED <<nlp_models, Unused>>

Benchmark ==
    /\ pc = "ready"
    /\ \E t \in ServiceTexts :
       LET P == OutcomeTable("presidio", nlp_models, t, SvcMaxFindings)
           S == OutcomeTable("spacy", nlp_models, t, SvcMaxFindings)
           T == OutcomeTable("transformers", nlp_models, t, SvcMaxFindings)
       IN  \E p \in P[SvcMaxFindings] :
           \E s \in S[SvcMaxFindings - Len(p.results)] :
           \E tr \in T[SvcMaxFindings - Len(p.results) - Len(s.results)] :
              LET req == [handler |-> "benchmark", text |-> t, config |-> DefaultConfig,
                          engines |-> [presidio |-> p, spacy |-> s, transformers |-> tr]]
              IN  \E elapsed \in [DOMAIN BenchmarkResults(nlp_models, req) -> ElapsedSamples] :
                     /\ request' = req
                     /\ response' = benchmark_engines(nlp_models, req, elapsed)
    /\ invoked' = BenchmarkCalls(nlp_models)
    /\ pc' = "responded"
    /\ UNCHANGED <<nlp_models, Unused>>

(* the response is returned; nothing of the request is kept *)
Respond ==
    /\ pc = "responded"
    /\ pc' = "ready"
    /\ request' = NoRequest
    /\ response' = NoResponse
    /\ invoked' = <<>>
    /\ UNCHANGED <<nlp_models, Unused>>

Next ==
    \/ Lifespan
    \/ AnalyzePresidio
    \/ AnalyzeSpacy
    \/ AnalyzeTransformers
    \/ AnalyzeHybrid
    \/ Benchmark
    \/ Respond

Spec == Init /\ [][Next]_vars

Handled(handler) == pc = "responded" /\ request.handler = handler

Available(engine) == RegistryKey(engine) \in nlp_models

(* the engine was called on the request and its call returned *)
EngineSucceeded(engine) ==
    /\ Available(engine)
    /\ engine = "presidio" => "presidio_anonymizer" \in nlp_models
    /\ request.engines[engine].ok

AvailableEngines == SelectSeq(EngineNames, Available)

SurvivingFindings(engine) ==
    IF EngineSucceeded(engine) THEN AnalyzeWith(engine, nlp_models, request).findings ELSE <<>>

(* C1 as stated: analyze_hybrid fails whenever no engine is usable, that   *)
(* is when no engine is registered or every available engine's call fails. *)
C1_HybridFailsWithoutEngine ==
    (Handled("hybrid") /\ \A i \in 1..3 : ~EngineSucceeded(EngineNames[i]))
        => response.status # 200

(* C2: when at least one available engine succeeds, analyze_hybrid returns *)
(* normally, every available engine has been called, the findings are      *)
(* consolidate_findings of the succeeding engines' findings concatenated,  *)
(* and processing_engine is "hybrid".                                      *)
C2_HybridAbsorbsFailure ==
    (Handled("hybrid") /\ \E i \in 1..3 : EngineSucceeded(EngineNames[i])) =>
        /\ response.status = 200
        /\ invoked = AvailableEngines
        /\ response.findings =
              consolidate_findings(SurvivingFindings("presidio") \o SurvivingFindings("spacy")
                                   \o SurvivingFindings("transformers"))
        /\ response.processing_engine = "hybrid"

C2_Witness ==
    /\ Handled("hybrid")
    /\ Available("presidio")
    /\ ~EngineSucceeded("presidio")
    /\ EngineSucceeded("spacy")
    /\ EngineSucceeded("transformers")
    /\ Len(SurvivingFindings("spacy")) = 1
    /\ Len(SurvivingFindings("transformers")) = 1
    /\ invoked = EngineNames
    /\ response.status = 200
    /\ Len(response.findings) = 1

(* C8 as stated: benchmark_engines always returns normally; a failed       *)
(* engine has time -1 and no result key and the other engines still run; a *)
(* succeeding engine has its result and a count equal to its number of     *)
(* findings; absent or failed engines count 0.                             *)
C8_BenchmarkNeverFails ==
    Handled("benchmark") =>
        /\ response.status = 200
        /\ invoked = AvailableEngines
        /\ \A i \in 1..3 :
              LET e == EngineNames[i]
              IN  /\ (Available(e) /\ ~EngineSucceeded(e)) =>
                        (response.performance[e] = FailedTime /\ e \notin DOMAIN response.results)
                  /\ EngineSucceeded(e) =>
                        /\ e \in DOMAIN response.results
                        /\ response.accuracy_comparison[e] = Len(response.results[e].findings)
                  /\ ~EngineSucceeded(e) => response.accuracy_comparison[e] = 0

Consolidated(fs) == AscendingByStart(fs) /\ PairwiseNonOverlapping(fs)

SpansOf(fs) == [i \in 1..Len(fs) |-> <<fs[i].start, fs[i].end>>]

====
